---- MODULE Spec2Model ----
(***************************************************************************)
(* Model of tts_server.py: a Flask relay in front of two text-to-speech    *)
(* providers (ElevenLabs on /tts, Sarvam AI on /tts/sarvam) plus /health.  *)
(*                                                                         *)
(* Strings are sequences of one-character strings, so that slicing,        *)
(* stripping and dictionary lookup are computed and not assumed.  A JSON   *)
(* value is a record [t, s, n]: t is its type, s its characters or items,  *)
(* n its number.  Exception messages (str(e)) and f-strings are sequences  *)
(* of string pieces.  A character TLA+ has no escape for is written by its *)
(* code point, "U+000B".                                                   *)
(*                                                                         *)
(* A view that calls its provider takes two steps, before and after        *)
(* requests.post.  Each request has its own thread: while a view waits,    *)
(* '.env' may be rewritten, other requests are answered, and other views   *)
(* come to wait as well.                                                   *)
(***************************************************************************)
EXTENDS Integers, Sequences, FiniteSets, Bags, TLC

VARIABLES
    environ,             \* os.environ: a function from the names that are set
    envFile,             \* the path '.env': [kind, lines]
    loadError,           \* the exception that ended the module load ("" if none: the server runs)
    ELEVENLABS_API_KEY,  \* the module global, set while the module loads
    elevenAbsentAtLoad,  \* history: the ElevenLabs credential was in neither source at load
    waiting,             \* the views that wait in requests.post: a bag of [request, call]
    request,             \* the exchange answered last: its request ...
    response,            \* ... the response the view returned ...
    upstream,            \* ... the upstream calls issued while handling it ...
    sarvamAbsentAtLookup \* ... history: sarvam_tts found its credential in neither source

vars == <<environ, envFile, loadError, ELEVENLABS_API_KEY, elevenAbsentAtLoad,
          waiting, request, response, upstream, sarvamAbsentAtLookup>>

---------------------------------------------------------------------------
(* Bounds of the model *)

\* how many characters past a provider's limit a request text may be
Overshoot == 1
\* how many views may wait in requests.post at once
MaxWaiting == 2

---------------------------------------------------------------------------
(* Program constants *)

ElevenTextLimit == 1000
SarvamTextLimit == 500
Timeout == 30
HTTP_OK == 200
HTTP_BAD_REQUEST == 400
HTTP_SERVER_ERROR == 500

EL_NAME == "VITE_ELEVENLABS_API_KEY"
SV_NAME == "VITE_SARVAM_API_KEY"
KeyNames == {EL_NAME, SV_NAME}

Min(a, b) == IF a <= b THEN a ELSE b

---------------------------------------------------------------------------
(* Python values *)

JStr(s) == [t |-> "str", s |-> s, n |-> 0]
JNum(n) == [t |-> "num", s |-> <<>>, n |-> n]
JList(s) == [t |-> "list", s |-> s, n |-> 0]
JNull == [t |-> "null", s |-> <<>>, n |-> 0]

\* bool(v) / "not v" for the JSON values a body can carry
Truthy(v) ==
    CASE v.t = "str" -> v.s # <<>>
      [] v.t = "list" -> v.s # <<>>
      [] v.t = "num" -> v.n # 0
      [] OTHER -> FALSE

\* v[:limit]: str and list slice, a number is not subscriptable
Sliceable(v) == v.t \in {"str", "list"}
\* (mutant: the slice keeps one character too many)
SliceOffByOne(v, limit) == [v EXCEPT !.s = SubSeq(v.s, 1, Min(Len(v.s), limit + 1))]
Slice(v, limit) == [v EXCEPT !.s = SubSeq(v.s, 1, Min(Len(v.s), limit))]

\* str.strip(): leading and trailing whitespace removed; the characters
\* str.isspace() holds of
Whitespace ==
    {" ", "\t", "\n", "\r", "\f", "U+000B", "U+001C", "U+001D", "U+001E", "U+001F",
     "U+0085", "U+00A0", "U+1680", "U+2000", "U+2001", "U+2002", "U+2003", "U+2004",
     "U+2005", "U+2006", "U+2007", "U+2008", "U+2009", "U+200A", "U+2028", "U+2029",
     "U+202F", "U+205F", "U+3000"}
RECURSIVE LStrip(_)
LStrip(s) == IF s # <<>> /\ Head(s) \in Whitespace THEN LStrip(Tail(s)) ELSE s
RECURSIVE RStrip(_)
RStrip(s) ==
    IF s # <<>> /\ s[Len(s)] \in Whitespace THEN RStrip(SubSeq(s, 1, Len(s) - 1)) ELSE s
Strip(s) == RStrip(LStrip(s))

---------------------------------------------------------------------------
(* Credential loading *)

\* os.environ.get(name, '')
EnvironGet(env, name) == IF name \in DOMAIN env THEN env[name] ELSE <<>>

\* the loop over the lines of '.env': the first line that starts with
\* 'NAME=' decides, whatever its value; a line is [name, rest] for 'name=rest'
RECURSIVE ScanLines(_, _)
ScanLines(lines, name) ==
    IF lines = <<>> THEN <<>>
    ELSE IF Head(lines).name = name THEN Strip(Head(lines).rest)
    ELSE ScanLines(Tail(lines), name)

\* the outcome of a lookup: the key, or the exception that left it
Loaded(key) == [exc |-> "", key |-> key]
LoadRaised(exc) == [exc |-> exc, key |-> <<>>]

\* the whole lookup: the environment first, then '.env'.  Only
\* FileNotFoundError is caught: a '.env' that is a directory fails in open(),
\* one whose bytes are no UTF-8 fails in the first read, and the exception
\* leaves the lookup
LoadKey(env, file, name) ==
    IF EnvironGet(env, name) # <<>> THEN Loaded(EnvironGet(env, name))
    ELSE CASE file.kind = "missing" -> Loaded(<<>>)
           [] file.kind = "directory" -> LoadRaised("IsADirectoryError")
           [] file.kind = "undecodable" -> LoadRaised("UnicodeDecodeError")
           [] OTHER -> Loaded(ScanLines(file.lines, name))

---------------------------------------------------------------------------
(* Responses *)

NoBytes == <<>>

\* jsonify({'error': msg}), status
JsonError(msg, status) ==
    [kind |-> "json", status |-> status, error |-> msg, exc |-> "",
     mimetype |-> "application/json", content |-> NoBytes,
     health_status |-> "", elevenlabs_configured |-> FALSE]

\* Response(content, mimetype=...)
AudioResponse(content, mimetype) ==
    [kind |-> "audio", status |-> HTTP_OK, error |-> <<>>, exc |-> "",
     mimetype |-> mimetype, content |-> content,
     health_status |-> "", elevenlabs_configured |-> FALSE]

\* an exception that leaves the view function: Flask answers it itself (an
\* HTTPException with its own code, anything else with 500), not with the
\* handler's JSON error body
Escaped(exc, status) ==
    [kind |-> "uncaught", status |-> status, error |-> <<>>, exc |-> exc,
     mimetype |-> "text/html", content |-> NoBytes,
     health_status |-> "", elevenlabs_configured |-> FALSE]

\* jsonify({'status': ..., 'elevenlabs_configured': ...})
HealthResponse(status, configured) ==
    [kind |-> "health", status |-> HTTP_OK, error |-> <<>>, exc |-> "",
     mimetype |-> "application/json", content |-> NoBytes,
     health_status |-> status, elevenlabs_configured |-> configured]

NoResponse ==
    [kind |-> "none", status |-> 0, error |-> <<>>, exc |-> "",
     mimetype |-> "", content |-> NoBytes,
     health_status |-> "", elevenlabs_configured |-> FALSE]

\* what a view did: the response and the upstream calls it issued
Handled(resp, calls) == [resp |-> resp, calls |-> calls]

---------------------------------------------------------------------------
(* Request bodies *)

\* request.json: a JSON object (its fields), another JSON value, or a body
\* that does not parse
ObjectBody(fields) == [kind |-> "object", fields |-> fields]
ArrayBody == [kind |-> "array", fields |-> <<>>]
MalformedBody == [kind |-> "malformed", fields |-> <<>>]

\* data.get(key, default)
DictGet(fields, key, default) == IF key \in DOMAIN fields THEN fields[key] ELSE default

---------------------------------------------------------------------------
(* Voice catalog *)

Rachel == <<"r", "a", "c", "h", "e", "l">>
Adam == <<"a", "d", "a", "m">>
Josh == <<"j", "o", "s", "h">>
Bella == <<"b", "e", "l", "l", "a">>

VoiceNames == {Rachel, Adam, Josh, Bella}

VOICES ==
    [v \in VoiceNames |->
        CASE v = Rachel -> "21m00Tcm4TlvDq8ikWAM"
          [] v = Adam -> "pNInz6obpgDQGcFmaJgB"
          [] v = Josh -> "TxGEqnHWrfWFTfGW9XjX"
          [] v = Bella -> "EXAVITQu4vr4xnSDxMaL"]

\* a dict key must be hashable: a list is not (TypeError)
Hashable(v) == v.t # "list"

\* VOICES.get(voice, VOICES['rachel']) for a hashable voice
VoiceId(voice) ==
    IF voice.t = "str" /\ voice.s \in DOMAIN VOICES THEN VOICES[voice.s]
    ELSE VOICES[Rachel]

---------------------------------------------------------------------------
(* Upstream calls and replies *)

\* response.json(): json = FALSE is a body that is no JSON; has_audios says
\* whether the envelope has the key 'audios'; audios is its list of base64
\* strings, each a sequence of 6-bit digits
Payload(json, has_audios, audios) ==
    [json |-> json, has_audios |-> has_audios, audios |-> audios]
NoPayload == Payload(FALSE, FALSE, <<>>)

ElevenUrl(voice_id) == <<"https://api.elevenlabs.io/v1/text-to-speech/", voice_id>>
SarvamUrl == <<"https://api.sarvam.ai/text-to-speech">>

\* the provider answered with a status; Sarvam's body is a JSON envelope
Reply(status_code, content, payload) ==
    [kind |-> "response", status_code |-> status_code, content |-> content,
     payload |-> payload, fault |-> <<>>]

\* requests.post has not returned yet
NoReply ==
    [kind |-> "none", status_code |-> 0, content |-> NoBytes,
     payload |-> NoPayload, fault |-> <<>>]

\* one requests.post: where, with which key, which text, and (once it has
\* returned) how the provider answered it
ElevenCall(voice_id, key, text) ==
    [url |-> ElevenUrl(voice_id), key |-> key, text |-> text,
     model_id |-> "eleven_monolingual_v1", timeout |-> Timeout, reply |-> NoReply]

SarvamCall(key, text, language) ==
    [url |-> SarvamUrl, key |-> key, text |-> text,
     target_language_code |-> language, speaker |-> "meera",
     timeout |-> Timeout, reply |-> NoReply]

NoCall == [url |-> <<>>, key |-> <<>>, text |-> JStr(<<>>), timeout |-> 0, reply |-> NoReply]

\* how far a view got before requests.post: it returned a response, or it
\* issued a call and waits
Returned(resp) == [waits |-> FALSE, resp |-> resp, call |-> NoCall]
Waits(call) == [waits |-> TRUE, resp |-> NoResponse, call |-> call]

\* requests.post raised (connection error, timeout): str(e) is the fault
Fault(msg) ==
    [kind |-> "fault", status_code |-> 0, content |-> NoBytes,
     payload |-> NoPayload, fault |-> msg]

\* base64.b64decode(s): four digits make three bytes; a length that is no
\* multiple of four is binascii.Error
B64Ok(s) == Len(s) % 4 = 0
B64Error(s) ==
    IF Len(s) % 4 = 1
    THEN <<"Invalid base64-encoded string: number of data characters (", ToString(Len(s)),
           ") cannot be 1 more than a multiple of 4">>
    ELSE <<"Incorrect padding">>
RECURSIVE B64Decode(_)
B64Decode(s) ==
    IF s = <<>> THEN <<>>
    ELSE << s[1] * 4 + s[2] \div 16,
            (s[2] % 16) * 16 + s[3] \div 4,
            (s[3] % 4) * 64 + s[4] >> \o B64Decode(SubSeq(s, 5, Len(s)))

---------------------------------------------------------------------------
(* POST /tts *)

NoTextProvided == <<"No text provided">>
ElevenNotConfigured == <<"ElevenLabs API key not configured">>
SarvamNotConfigured == <<"Sarvam API key not configured">>
NoAudioReturned == <<"No audio returned">>
NotSubscriptable == <<"'int' object is not subscriptable">>

\* the try block of text_to_speech up to requests.post: the arguments are
\* built (text[:1000]) and the call is issued; an exception becomes a 500
\* with str(e).  (The package requests is taken to be installed: its import,
\* inside the try, succeeds.)
ElevenTry(key, voice_id, text) ==
    IF ~Sliceable(text)
    THEN Returned(JsonError(NotSubscriptable, HTTP_SERVER_ERROR))
    ELSE Waits(ElevenCall(voice_id, key, Slice(text, ElevenTextLimit)))

\* (mutant: a failed call is issued a second time before giving up)
ElevenAnswerRetry(call, reply) ==
    LET made == [call EXCEPT !.reply = reply]
    IN IF reply.kind = "fault"
       THEN Handled(JsonError(reply.fault, HTTP_SERVER_ERROR), <<made, made>>)
       ELSE IF reply.status_code # HTTP_OK
       THEN Handled(JsonError(<<"ElevenLabs error: ", ToString(reply.status_code)>>,
                              HTTP_SERVER_ERROR), <<made, made>>)
       ELSE Handled(AudioResponse(reply.content, "audio/mpeg"), <<made>>)

\* (mutant: only a 5xx answer counts as an upstream error)
ElevenAnswerLenient(call, reply) ==
    LET made == [call EXCEPT !.reply = reply]
    IN IF reply.kind = "fault"
       THEN Handled(JsonError(reply.fault, HTTP_SERVER_ERROR), <<made>>)
       ELSE IF reply.status_code >= HTTP_SERVER_ERROR
       THEN Handled(JsonError(<<"ElevenLabs error: ", ToString(reply.status_code)>>,
                              HTTP_SERVER_ERROR), <<made>>)
       ELSE Handled(AudioResponse(reply.content, "audio/mpeg"), <<made>>)

\* the try block of text_to_speech from the return of requests.post: the
\* fault it raised, the status check, the audio
ElevenAnswer(call, reply) ==
    LET made == [call EXCEPT !.reply = reply]
    IN IF reply.kind = "fault"
       THEN Handled(JsonError(reply.fault, HTTP_SERVER_ERROR), <<made>>)
       ELSE IF reply.status_code # HTTP_OK
       THEN Handled(JsonError(<<"ElevenLabs error: ", ToString(reply.status_code)>>,
                              HTTP_SERVER_ERROR), <<made>>)
       ELSE Handled(AudioResponse(reply.content, "audio/mpeg"), <<made>>)

\* text_to_speech() up to requests.post: body access, the two checks, the
\* voice lookup, the call
TextToSpeechStart(key, body) ==
    IF body.kind = "malformed"
    THEN Returned(Escaped("BadRequest", HTTP_BAD_REQUEST))
    ELSE IF body.kind # "object"
    THEN Returned(Escaped("AttributeError", HTTP_SERVER_ERROR))
    ELSE LET text == DictGet(body.fields, "text", JStr(<<>>))
             voice == DictGet(body.fields, "voice", JStr(Rachel))
         IN IF ~Truthy(text)
            THEN Returned(JsonError(NoTextProvided, HTTP_BAD_REQUEST))
            ELSE IF key = <<>>
            THEN Returned(JsonError(ElevenNotConfigured, HTTP_SERVER_ERROR))
            ELSE IF ~Hashable(voice)
            THEN Returned(Escaped("TypeError", HTTP_SERVER_ERROR))
            ELSE ElevenTry(key, VoiceId(voice), text)

\* text_to_speech() from the request to the response, the provider
\* answering with reply if it is called
TextToSpeech(key, body, reply) ==
    LET start == TextToSpeechStart(key, body)
    IN IF start.waits THEN ElevenAnswer(start.call, reply)
       ELSE Handled(start.resp, <<>>)

---------------------------------------------------------------------------
(* POST /tts/sarvam *)

EnIN == <<"e", "n", "-", "I", "N">>

\* response.json().get('audios', [{}])[0] and what follows it
SarvamAudio(payload) ==
    IF ~payload.json
    THEN JsonError(<<"Expecting value: line 1 column 1 (char 0)">>, HTTP_SERVER_ERROR)
    ELSE IF ~payload.has_audios
    THEN JsonError(NoAudioReturned, HTTP_SERVER_ERROR)
    ELSE IF payload.audios = <<>>
    THEN JsonError(<<"list index out of range">>, HTTP_SERVER_ERROR)
    ELSE IF payload.audios[1] = <<>>
    THEN JsonError(NoAudioReturned, HTTP_SERVER_ERROR)
    ELSE IF ~B64Ok(payload.audios[1])
    THEN JsonError(B64Error(payload.audios[1]), HTTP_SERVER_ERROR)
    ELSE AudioResponse(B64Decode(payload.audios[1]), "audio/wav")

\* the try block of sarvam_tts up to requests.post
SarvamTry(key, text, language) ==
    IF ~Sliceable(text)
    THEN Returned(JsonError(NotSubscriptable, HTTP_SERVER_ERROR))
    ELSE Waits(SarvamCall(key, Slice(text, SarvamTextLimit), language))

\* the try block of sarvam_tts from the return of requests.post
SarvamAnswer(call, reply) ==
    LET made == [call EXCEPT !.reply = reply]
    IN IF reply.kind = "fault"
       THEN Handled(JsonError(reply.fault, HTTP_SERVER_ERROR), <<made>>)
       ELSE IF reply.status_code # HTTP_OK
       THEN Handled(JsonError(<<"Sarvam error: ", ToString(reply.status_code)>>,
                              HTTP_SERVER_ERROR), <<made>>)
       ELSE Handled(SarvamAudio(reply.payload), <<made>>)

\* sarvam_tts() up to requests.post: the key is looked up on every request,
\* before the body is touched and outside the try block
SarvamTtsStart(env, file, body) ==
    LET load == LoadKey(env, file, SV_NAME)
        SARVAM_API_KEY == load.key
    IN IF load.exc # ""
       THEN Returned(Escaped(load.exc, HTTP_SERVER_ERROR))
       ELSE IF SARVAM_API_KEY = <<>>
       THEN Returned(JsonError(SarvamNotConfigured, HTTP_SERVER_ERROR))
       ELSE IF body.kind = "malformed"
       THEN Returned(Escaped("BadRequest", HTTP_BAD_REQUEST))
       ELSE IF body.kind # "object"
       THEN Returned(Escaped("AttributeError", HTTP_SERVER_ERROR))
       ELSE LET text == DictGet(body.fields, "text", JStr(<<>>))
                language == DictGet(body.fields, "language", JStr(EnIN))
            IN IF ~Truthy(text)
               THEN Returned(JsonError(NoTextProvided, HTTP_BAD_REQUEST))
               ELSE SarvamTry(SARVAM_API_KEY, text, language)

\* sarvam_tts() from the request to the response, the sources unchanged
\* meanwhile
SarvamTts(env, file, body, reply) ==
    LET start == SarvamTtsStart(env, file, body)
    IN IF start.waits THEN SarvamAnswer(start.call, reply)
       ELSE Handled(start.resp, <<>>)

---------------------------------------------------------------------------
(* GET /health *)

\* (mutant: the flag tests that the global exists, not that it is set)
HealthAlwaysConfigured(key) == HealthResponse("ok", TRUE)
Health(key) == HealthResponse("ok", key # <<>>)

---------------------------------------------------------------------------
(* Inputs *)

\* a text of n characters
Alphabet == <<"a", "b", "c">>
Chars(n) == [i \in 1..n |-> Alphabet[((i - 1) % 3) + 1]]

\* the values of 'text': the empty string, one character, a string past
\* the provider's limit, a number
Texts(limit) ==
    {JStr(Chars(n)) : n \in {0, 1, limit + Overshoot}} \cup {JNum(7)}

\* the values of 'voice': names of the catalog, an unknown name, a list
Zed == <<"z", "e", "d">>
Voices == {JStr(v) : v \in {Adam, Zed}} \cup {JList(<<>>)}

\* the bodies of POST /tts: no field, each text alone, a short text with
\* each voice, a voice alone, and two bodies that are no JSON object
TtsBodies ==
    {ObjectBody(<<>>), ObjectBody("voice" :> JStr(Adam)), ArrayBody, MalformedBody}
        \cup {ObjectBody("text" :> t) : t \in Texts(ElevenTextLimit)}
        \cup {ObjectBody(("text" :> JStr(Chars(1))) @@ ("voice" :> v)) : v \in Voices}

\* the bodies of POST /tts/sarvam, likewise
SarvamBodies ==
    {ObjectBody(<<>>), ArrayBody, MalformedBody}
        \cup {ObjectBody("text" :> t) : t \in Texts(SarvamTextLimit)}

\* how ElevenLabs may answer: audio, a refusal, a 2xx that is not 200, a
\* timeout
ElevenReplies ==
    { Reply(HTTP_OK, <<73, 68, 51>>, NoPayload),
      Reply(401, NoBytes, NoPayload),
      Reply(204, NoBytes, NoPayload),
      Fault(<<"Read timed out">>) }

\* how Sarvam may answer
SarvamReplies ==
    { Reply(204, NoBytes, NoPayload),
      Fault(<<"Read timed out">>),
      Reply(HTTP_OK, NoBytes, NoPayload),
      Reply(HTTP_OK, NoBytes, Payload(TRUE, FALSE, <<>>)),
      Reply(HTTP_OK, NoBytes, Payload(TRUE, TRUE, <<>>)),
      Reply(HTTP_OK, NoBytes, Payload(TRUE, TRUE, << <<>> >>)),
      Reply(HTTP_OK, NoBytes, Payload(TRUE, TRUE, << <<16, 20, 9, 3>> >>)) }

\* the environment of the process: both names unset, or both set to a key
Envs == {[ks \in {} |-> <<>>], [ks \in KeyNames |-> <<"e">>]}

\* what follows 'NAME=' on a line of '.env': a key within whitespace, and
\* whitespace alone
KeyRest == <<"\t", "k", " ", "\r", "\n">>
BlankRest == <<" ", "\n">>
Line(name, rest) == [name |-> name, rest |-> rest]

\* '.env': a file of lines, or missing, or a directory, or a file whose
\* bytes are no UTF-8 (and that has no line for either name)
TextFile(lines) == [kind |-> "text", lines |-> lines]
MissingFile == [kind |-> "missing", lines |-> <<>>]
Directory == [kind |-> "directory", lines |-> <<>>]
Undecodable == [kind |-> "undecodable", lines |-> <<>>]
Files ==
    { MissingFile, Directory, Undecodable,
      TextFile(<<Line(EL_NAME, KeyRest)>>),
      TextFile(<<Line(SV_NAME, KeyRest)>>),
      TextFile(<<Line(SV_NAME, BlankRest), Line(SV_NAME, KeyRest)>>) }

\* the credential is in neither source: the name is unset or empty in the
\* environment, and '.env' is no file, or has no line for the name, or the
\* first line for the name gives it only whitespace
AbsentFromEnv(env, name) == name \notin DOMAIN env \/ env[name] = <<>>
AbsentFromFile(file, name) ==
    file.kind \in {"missing", "directory"}
    \/ \A i \in 1..Len(file.lines) :
          (file.lines[i].name = name /\ \A j \in 1..(i - 1) : file.lines[j].name # name)
             => \A c \in 1..Len(file.lines[i].rest) : file.lines[i].rest[c] \in Whitespace

---------------------------------------------------------------------------
(* The state machine *)

NoRequest == [method |-> "", route |-> "", body |-> ObjectBody(<<>>)]

\* a view that waits in requests.post
Waiting(req, call) == [request |-> req, call |-> call]

\* the module load: an exception in the ElevenLabs lookup ends it, and the
\* server never runs
Init ==
    /\ environ \in Envs
    /\ envFile \in Files
    /\ loadError = LoadKey(environ, envFile, EL_NAME).exc
    /\ ELEVENLABS_API_KEY = LoadKey(environ, envFile, EL_NAME).key
    /\ elevenAbsentAtLoad =
          (AbsentFromEnv(environ, EL_NAME) /\ AbsentFromFile(envFile, EL_NAME))
    /\ waiting = EmptyBag
    /\ request = NoRequest
    /\ response = NoResponse
    /\ upstream = <<>>
    /\ sarvamAbsentAtLookup = FALSE

\* the server runs, and a thread is free for one more view to wait
Running == loadError = ""
CanWait == BagCardinality(waiting) < MaxWaiting

\* POST /tts with a body: text_to_speech runs up to its response, or up to
\* requests.post
PostTts(body) ==
    LET start == TextToSpeechStart(ELEVENLABS_API_KEY, body)
        req == [method |-> "POST", route |-> "/tts", body |-> body]
    IN /\ Running
       /\ IF start.waits
          THEN /\ CanWait
               /\ waiting' = waiting (+) SetToBag({Waiting(req, start.call)})
               /\ UNCHANGED <<request, response, upstream, sarvamAbsentAtLookup>>
          ELSE /\ request' = req
               /\ response' = start.resp
               /\ upstream' = <<>>
               /\ sarvamAbsentAtLookup' = FALSE
               /\ UNCHANGED waiting
       /\ UNCHANGED <<environ, envFile, loadError, ELEVENLABS_API_KEY, elevenAbsentAtLoad>>

\* POST /tts/sarvam with a body: sarvam_tts runs up to its response, or up
\* to requests.post
PostSarvam(body) ==
    LET start == SarvamTtsStart(environ, envFile, body)
        req == [method |-> "POST", route |-> "/tts/sarvam", body |-> body]
        absent == AbsentFromEnv(environ, SV_NAME) /\ AbsentFromFile(envFile, SV_NAME)
    IN /\ Running
       /\ IF start.waits
          THEN /\ CanWait
               /\ waiting' = waiting (+) SetToBag({Waiting(req, start.call)})
               /\ UNCHANGED <<request, response, upstream, sarvamAbsentAtLookup>>
          ELSE /\ request' = req
               /\ response' = start.resp
               /\ upstream' = <<>>
               /\ sarvamAbsentAtLookup' = absent
               /\ UNCHANGED waiting
       /\ UNCHANGED <<environ, envFile, loadError, ELEVENLABS_API_KEY, elevenAbsentAtLoad>>

\* requests.post returns to a waiting text_to_speech, or raises, and the
\* view answers
ElevenAnswers(view, reply) ==
    LET done == ElevenAnswer(view.call, reply)
    IN /\ BagIn(view, waiting)
       /\ view.request.route = "/tts"
       /\ request' = view.request
       /\ response' = done.resp
       /\ upstream' = done.calls
       /\ sarvamAbsentAtLookup' = FALSE
       /\ waiting' = waiting (-) SetToBag({view})
       /\ UNCHANGED <<environ, envFile, loadError, ELEVENLABS_API_KEY, elevenAbsentAtLoad>>

\* requests.post returns to a waiting sarvam_tts, or raises, and the view
\* answers
SarvamAnswers(view, reply) ==
    LET done == SarvamAnswer(view.call, reply)
    IN /\ BagIn(view, waiting)
       /\ view.request.route = "/tts/sarvam"
       /\ request' = view.request
       /\ response' = done.resp
       /\ upstream' = done.calls
       /\ sarvamAbsentAtLookup' = FALSE
       /\ waiting' = waiting (-) SetToBag({view})
       /\ UNCHANGED <<environ, envFile, loadError, ELEVENLABS_API_KEY, elevenAbsentAtLoad>>

\* GET /health
GetHealth ==
    /\ Running
    /\ request' = [method |-> "GET", route |-> "/health", body |-> ObjectBody(<<>>)]
    /\ response' = Health(ELEVENLABS_API_KEY)
    /\ upstream' = <<>>
    /\ sarvamAbsentAtLookup' = FALSE
    /\ UNCHANGED <<environ, envFile, loadError, ELEVENLABS_API_KEY, elevenAbsentAtLoad,
                   waiting>>

\* somebody rewrites '.env', deletes it or puts something else in its place
WriteEnvFile(file) ==
    /\ file # envFile
    /\ envFile' = file
    /\ UNCHANGED <<environ, loadError, ELEVENLABS_API_KEY, elevenAbsentAtLoad,
                   waiting, request, response, upstream, sarvamAbsentAtLookup>>

Next ==
    \/ \E body \in TtsBodies : PostTts(body)
    \/ \E body \in SarvamBodies : PostSarvam(body)
    \/ \E view \in BagToSet(waiting), reply \in ElevenReplies : ElevenAnswers(view, reply)
    \/ \E view \in BagToSet(waiting), reply \in SarvamReplies : SarvamAnswers(view, reply)
    \/ GetHealth
    \/ \E file \in Files : WriteEnvFile(file)

Spec == Init /\ [][Next]_vars

---------------------------------------------------------------------------
(* The exchange answered last *)

IsTts == request.route = "/tts"
IsSarvam == request.route = "/tts/sarvam"
IsSynthesis == IsTts \/ IsSarvam
HasObjectBody == IsSynthesis /\ request.body.kind = "object"
Fields == request.body.fields
HasField(k) == k \in DOMAIN Fields

\* the request carries a text that is not empty
HasText == HasObjectBody /\ HasField("text") /\ Truthy(Fields["text"])
\* ... and that text is a string
HasStringText == HasText /\ Fields["text"].t = "str"

\* the limit of the endpoint asked
LimitOfRoute == IF IsTts THEN ElevenTextLimit ELSE SarvamTextLimit

\* the Sarvam credential as the two sources give it now
SarvamKeyNow == LoadKey(environ, envFile, SV_NAME).key

\* the provider was called and answered with a status the view refuses:
\* any but 200
UpstreamRefused ==
    /\ upstream # <<>>
    /\ upstream[1].reply.kind = "response"
    /\ upstream[1].reply.status_code # HTTP_OK

\* the provider was called and the call failed: a refusal, or a fault
UpstreamFailed ==
    upstream # <<>> /\ (UpstreamRefused \/ upstream[1].reply.kind = "fault")

IsErrorBody(r) ==
    /\ r.kind = "json"
    /\ r.status \in {HTTP_BAD_REQUEST, HTTP_SERVER_ERROR}
    /\ r.error # <<>>

---------------------------------------------------------------------------
(* Claims *)

\* C1: a POST to /tts or /tts/sarvam whose JSON object has no text, or an
\* empty one, is answered 400 {"error": "No text provided"}, whatever the
\* credentials and the other fields.  (Fails: /tts/sarvam checks its key
\* first.)
C1_EmptyTextIs400 ==
    (HasObjectBody /\ (~HasField("text") \/ Fields["text"] = JStr(<<>>)))
        => response = JsonError(NoTextProvided, HTTP_BAD_REQUEST)

\* C2: every failure of a synthesis request is answered by the handler with
\* a JSON error body and status 400 or 500; no exception leaves the handler.
\* (Fails: body access and the voice lookup are outside the try block.)
C2_EveryFaultIsAJsonError ==
    IsSynthesis => (response.kind = "audio" \/ IsErrorBody(response))

\* C3: on /tts/sarvam, an upstream 200 whose envelope has no 'audios', an
\* empty 'audios' or an empty first item is answered 500 {"error": "No
\* audio returned"}.  (Fails: an empty list is an IndexError.)
C3_NoUsableAudioIsNoAudioReturned ==
    (/\ IsSarvam
     /\ upstream # <<>>
     /\ upstream[1].reply.kind = "response"
     /\ upstream[1].reply.status_code = HTTP_OK
     /\ upstream[1].reply.payload.json
     /\ \/ ~upstream[1].reply.payload.has_audios
        \/ upstream[1].reply.payload.audios = <<>>
        \/ upstream[1].reply.payload.audios[1] = <<>>)
        => response = JsonError(NoAudioReturned, HTTP_SERVER_ERROR)

\* C4: a request with a non-empty text whose endpoint's credential is in
\* neither the environment nor '.env' (when the endpoint looks: at load for
\* /tts, at the start of the request for /tts/sarvam) is answered 500 with
\* that endpoint's "not configured" message and no upstream call, whatever
\* the other provider's credential is.  (Fails: on /tts/sarvam a '.env'
\* that cannot be read raises out of the view.)
C4_MissingCredentialIs500 ==
    HasText =>
        /\ (IsTts /\ elevenAbsentAtLoad)
              => (/\ response = JsonError(ElevenNotConfigured, HTTP_SERVER_ERROR)
                  /\ upstream = <<>>)
        /\ (IsSarvam /\ sarvamAbsentAtLookup)
              => (/\ response = JsonError(SarvamNotConfigured, HTTP_SERVER_ERROR)
                  /\ upstream = <<>>)

\* C5: a synthesis request issues at most one upstream call; a request with
\* a string text, a usable voice and a configured credential issues exactly
\* one; after a refusal, a fault or a timeout the call is not repeated and
\* the failure is the response.
C5_OneUpstreamCallNoRetry ==
    IsSynthesis =>
        /\ Len(upstream) <= 1
        /\ (/\ HasStringText
            /\ IsTts => (ELEVENLABS_API_KEY # <<>>
                         /\ (HasField("voice") => Fields["voice"].t # "list"))
            /\ IsSarvam => ~sarvamAbsentAtLookup)
              => Len(upstream) = 1
        /\ UpstreamFailed => (Len(upstream) = 1 /\ IsErrorBody(response))
        /\ response.kind = "audio" => Len(upstream) = 1

\* C5 witness: the provider timed out, one call was made, and the fault is
\* the response
C5_Witness ==
    /\ IsTts
    /\ Len(upstream) = 1
    /\ upstream[1].reply.kind = "fault"
    /\ response = JsonError(upstream[1].reply.fault, HTTP_SERVER_ERROR)

\* C6: both credentials are fixed at startup: no step of the running server
\* changes the ElevenLabs key, nor what /tts/sarvam answers to any request.
\* (Fails: /tts/sarvam reads the environment and '.env' on every request.)
C6_CredentialsFixedAtStartup ==
    [][Running =>
          /\ ELEVENLABS_API_KEY' = ELEVENLABS_API_KEY
          /\ \A body \in SarvamBodies, reply \in SarvamReplies :
                SarvamTts(environ', envFile', body, reply)
                   = SarvamTts(environ, envFile, body, reply)]_vars

\* C7: the text sent upstream is the first min(len, limit) characters of the
\* request's text, limit 1000 on /tts and 500 on /tts/sarvam: a text within
\* the limit goes unchanged, a longer one as its first limit characters, and
\* never more than limit characters go.
C7_ForwardedTextIsPrefix ==
    (HasStringText /\ upstream # <<>>) =>
        LET text == Fields["text"].s
            sent == upstream[1].text.s
        IN /\ upstream[1].text.t = "str"
           /\ Len(sent) <= LimitOfRoute
           /\ Len(text) <= LimitOfRoute => sent = text
           /\ Len(text) > LimitOfRoute =>
                 /\ Len(sent) = LimitOfRoute
                 /\ \A i \in 1..LimitOfRoute : sent[i] = text[i]

\* C7 witness: a text over the limit was cut to the limit
C7_Witness ==
    /\ IsTts /\ HasStringText /\ upstream # <<>>
    /\ Len(Fields["text"].s) > ElevenTextLimit
    /\ Len(upstream[1].text.s) = ElevenTextLimit

\* the identifier the catalog gives the request's voice
C8_ExpectedVoiceId ==
    IF ~HasField("voice") THEN "21m00Tcm4TlvDq8ikWAM"
    ELSE IF Fields["voice"] = JStr(Adam) THEN "pNInz6obpgDQGcFmaJgB"
    ELSE IF Fields["voice"] = JStr(Josh) THEN "TxGEqnHWrfWFTfGW9XjX"
    ELSE IF Fields["voice"] = JStr(Bella) THEN "EXAVITQu4vr4xnSDxMaL"
    ELSE "21m00Tcm4TlvDq8ikWAM"

\* C8: on /tts (a text, the credential configured) every voice resolves
\* without an error: a catalog name to its own identifier, any other value
\* and an absent voice to rachel's, and the upstream call goes to that
\* identifier.  (Fails: a voice that is a list cannot be looked up.)
C8_EveryVoiceResolves ==
    (IsTts /\ HasStringText /\ ELEVENLABS_API_KEY # <<>>) =>
        /\ response.kind # "uncaught"
        /\ Len(upstream) = 1
        /\ upstream[1].url = ElevenUrl(C8_ExpectedVoiceId)

\* C9: when the provider answers with a status that is no success (for the
\* views: any status but 200), the response is 500 with a JSON error naming
\* that status and no audio; audio is returned only after a successful
\* upstream answer, a 200.
C9_UpstreamRefusalIs500WithCode ==
    IsSynthesis =>
        /\ UpstreamRefused =>
              /\ response.kind = "json"
              /\ response.status = HTTP_SERVER_ERROR
              /\ response.content = NoBytes
              /\ \E i \in 1..Len(response.error) :
                    response.error[i] = ToString(upstream[1].reply.status_code)
        /\ response.kind = "audio" =>
              /\ upstream # <<>>
              /\ upstream[1].reply.kind = "response"
              /\ upstream[1].reply.status_code = HTTP_OK

\* C9 witness: ElevenLabs answered 401 and the response is the 500 naming it
C9_Witness ==
    /\ IsTts /\ UpstreamRefused
    /\ upstream[1].reply.status_code = 401
    /\ response = JsonError(<<"ElevenLabs error: ", "401">>, HTTP_SERVER_ERROR)

\* C10: GET /health is 200 with status "ok", and elevenlabs_configured is
\* true exactly when the ElevenLabs key is present, that is exactly when a
\* POST /tts with a text is not answered with the configuration error,
\* whatever the Sarvam credential.
C10_HealthReflectsCredential ==
    request.route = "/health" =>
        /\ response.kind = "health"
        /\ response.status = HTTP_OK
        /\ response.health_status = "ok"
        /\ response.elevenlabs_configured = (ELEVENLABS_API_KEY # <<>>)
        /\ \A body \in TtsBodies, reply \in ElevenReplies :
              (body.kind = "object" /\ "text" \in DOMAIN body.fields
                    /\ Truthy(body.fields["text"]))
                 => (response.elevenlabs_configured
                        <=> TextToSpeech(ELEVENLABS_API_KEY, body, reply).resp
                               # JsonError(ElevenNotConfigured, HTTP_SERVER_ERROR))

\* C10 witness: health reports the ElevenLabs key present while Sarvam has none
C10_Witness ==
    /\ request.route = "/health"
    /\ response.elevenlabs_configured
    /\ SarvamKeyNow = <<>>

====
